---------------------------- MODULE Spec2Model ----------------------------
(***************************************************************************)
(* State-machine model of main.py: the file-per-record chat store          *)
(* (save_chat, get_chat, get_chats, delete_chat), the model registry       *)
(* (MODELS, get_model_name) and the streaming relay (chat_stream and its   *)
(* generator).                                                             *)
(*                                                                         *)
(* A Python str is a sequence of one-character strings.  A Python value is *)
(* a tagged record: PyNone, PyStr(s), PyList(l); a dict is a function from *)
(* key names to Python values.                                             *)
(***************************************************************************)
EXTENDS Integers, Sequences, FiniteSets, TLC

VARIABLES
    files,      \* the storage directory: file name (str) -> file text
    clock,      \* the wall clock read by datetime.now()
    minted,     \* how many uuid4() values have been drawn
    resp,       \* the response of the handler that ran last
    lastSave,   \* history: chat id -> the last completed save of that id
    MODELS,     \* the module-level registry dict
    relay,      \* the chat_stream request in progress and its generator
    backend,    \* history: what the backend did during that request
    loop        \* save_chat coroutines on the event loop (step-level view)

vars == <<files, clock, minted, resp, lastSave, MODELS, relay, backend, loop>>

(***************************************************************************)
(* Bounds of the model.                                                    *)
(***************************************************************************)
MaxClock == 1
MaxUuid == 1
MaxFrags == 2
MaxExtra == 2
MaxSlots == 2

(***************************************************************************)
(* Program constants.                                                      *)
(***************************************************************************)
ContextWindow == 20
TitleMax == 50

(***************************************************************************)
(* Python values and string literals of the source.                        *)
(***************************************************************************)
PyNone == [t |-> "None"]
PyStr(s) == [t |-> "str", v |-> s]
PyList(l) == [t |-> "list", v |-> l]

\* bool(x) for the Optional[str] fields tested with "if x" / "if not x"
Truthy(x) == x.t = "str" /\ x.v # <<>>

S_user == <<"u", "s", "e", "r">>
S_assistant == <<"a", "s", "s", "i", "s", "t", "a", "n", "t">>
S_general == <<"g", "e", "n", "e", "r", "a", "l">>
S_code == <<"c", "o", "d", "e">>
S_Untitled == <<"U", "n", "t", "i", "t", "l", "e", "d">>
S_UntitledChat == S_Untitled \o <<" ", "C", "h", "a", "t">>
S_Ellipsis == <<".", ".", ".">>
S_ErrorPrefix == <<"E", "r", "r", "o", "r", ":", " ">>
S_DotJson == <<".", "j", "s", "o", "n">>
S_success == <<"s", "u", "c", "c", "e", "s", "s">>

Digit(n) == <<"0", "1", "2", "3", "4", "5", "6", "7", "8", "9">>[n + 1]

\* Code-point order of the characters that occur in timestamps.
CharOrder == <<"-", ".", "0", "1", "2", "3", "4", "5", "6", "7", "8", "9", ":", "T">>
Ord(c) == CHOOSE i \in 1..Len(CharOrder) : CharOrder[i] = c

\* Python's str "<": lexicographic by code point, a proper prefix is smaller.
RECURSIVE StrLess(_, _)
StrLess(a, b) ==
    IF b = <<>> THEN FALSE
    ELSE IF a = <<>> THEN TRUE
    ELSE IF Head(a) # Head(b) THEN Ord(Head(a)) < Ord(Head(b))
    ELSE StrLess(Tail(a), Tail(b))

(***************************************************************************)
(* Paths: SAVED_CHATS_DIR / f"{chat_id}.json", Path.stem, glob("*.json").  *)
(***************************************************************************)
FilePath(chat_id) == chat_id \o S_DotJson

EndsWith(s, suf) ==
    /\ Len(s) >= Len(suf)
    /\ SubSeq(s, Len(s) - Len(suf) + 1, Len(s)) = suf

\* Path.stem: the file name without its last suffix
Stem(name) ==
    LET dots == {i \in 2..Len(name) : name[i] = "."}
    IN  IF dots = {} THEN name
        ELSE SubSeq(name, 1, (CHOOSE i \in dots : \A j \in dots : j <= i) - 1)

\* glob("*.json"): the matching directory entries
Glob(dir) == {name \in DOMAIN dir : EndsWith(name, S_DotJson)}

(***************************************************************************)
(* File text.  json.dump writes the document through a buffered file, so   *)
(* the text reaches the file in pieces: the head of the object (id, title, *)
(* model, timestamp) and its tail (messages).  json.load accepts exactly   *)
(* one complete document.                                                  *)
(***************************************************************************)
Dump(data) ==
    << [part |-> "head",
        obj |-> [id |-> data.id, title |-> data.title,
                 model |-> data.model, timestamp |-> data.timestamp]],
       [part |-> "tail", obj |-> [messages |-> data.messages]] >>

\* a JSON document that is not an object: "[]"
ArrayText == << [part |-> "array"] >>

Load(text) ==
    IF Len(text) = 2 /\ text[1].part = "head" /\ text[2].part = "tail"
    THEN [ok |-> TRUE, val |-> [t |-> "dict", v |-> text[1].obj @@ text[2].obj]]
    ELSE IF text = ArrayText
    THEN [ok |-> TRUE, val |-> PyList(<<>>)]
    ELSE [ok |-> FALSE, err |-> "JSONDecodeError"]

\* dict.get(key, default)
Get(d, key, default) == IF key \in DOMAIN d THEN d[key] ELSE default

(***************************************************************************)
(* datetime.now().isoformat(): zero-padded fields, and the fraction is     *)
(* left out when it is zero.  The clock counts half seconds.               *)
(***************************************************************************)
IsoFormat(t) ==
    LET sec == t \div 2
        frac == t % 2
    IN  <<"T", Digit(sec \div 10), Digit(sec % 10)>>
        \o (IF frac = 0 THEN <<>> ELSE <<".", "5">>)

\* datetime.now(): the clock has not moved since it was last read, or it has
\* moved on by one tick
Now == {t \in {clock, clock + 1} : t <= MaxClock}

(***************************************************************************)
(* uuid4(): the n-th value drawn.                                          *)
(***************************************************************************)
Uuid(n) == <<"u", Digit(n)>>

(***************************************************************************)
(* Requests.                                                               *)
(***************************************************************************)
Message(role, content) == [role |-> role, content |-> content]

\* m.dict()
MessageDict(m) == [role |-> PyStr(m.role), content |-> PyStr(m.content)]

\* a str of n characters whose i-th character depends on i
Text(n) == [i \in 1..n |-> Digit(i % 10)]

S_hi == <<"h", "i">>
S_My == <<"M", "y">>
S_a == <<"a">>

LongChat ==
    << Message(S_assistant, S_hi), Message(S_user, Text(TitleMax + 1)),
       Message(S_user, S_hi) >>

MessageLists ==
    { <<>>,
      << Message(S_assistant, S_hi) >>,
      << Message(S_user, <<>>) >>,
      << Message(S_user, Text(TitleMax)), Message(S_assistant, S_hi) >>,
      LongChat }

Titles == {PyNone, PyStr(<<>>), PyStr(S_My)}

\* SaveChatRequest bodies that pass validation
SaveRequests ==
    {[id |-> PyStr(S_a), title |-> PyNone, model |-> S_general, messages |-> m] :
        m \in MessageLists}
    \cup {[id |-> PyStr(S_a), title |-> t, model |-> S_general, messages |-> m] :
        t \in Titles, m \in {<<>>, LongChat}}
    \cup {[id |-> i, title |-> PyNone, model |-> S_code, messages |-> LongChat] :
        i \in {PyNone, PyStr(<<>>), PyStr(S_a)}}
    \cup {[id |-> PyNone, title |-> PyStr(S_My), model |-> S_general,
           messages |-> <<>>]}

S_old == <<"o", "l", "d">>

\* chat ids of get and delete requests
ChatIds == {S_a, Uuid(1), <<"z">>}

(***************************************************************************)
(* Directory contents found at startup (mkdir(exist_ok=True) keeps them).  *)
(***************************************************************************)
ObjectText(head) ==
    << [part |-> "head", obj |-> head],
       [part |-> "tail", obj |-> [messages |-> PyList(<<>>)]] >>

\* records that lack fields save_chat always writes
LegacyTexts ==
    { ObjectText([title |-> PyStr(S_My)]),
      ObjectText([model |-> PyStr(S_code)]) }

NoFiles == [name \in {} |-> <<>>]

StoreDirs ==
    {NoFiles} \cup {[name \in {FilePath(S_old)} |-> x] : x \in LegacyTexts}

(***************************************************************************)
(* save_chat                                                               *)
(***************************************************************************)
\* chat.id if chat.id else str(uuid.uuid4())
NeedsUuid(chat) == ~Truthy(chat.id)

ChatIdOf(chat, u) == IF Truthy(chat.id) THEN chat.id.v ELSE u

\* first_msg[:50] + "..." if len(first_msg) > 50 else first_msg
Shorten(first_msg) ==
    IF Len(first_msg) > TitleMax
    THEN SubSeq(first_msg, 1, TitleMax) \o S_Ellipsis
    ELSE first_msg

\* [m for m in chat.messages if m.role == "user"]
UserMsgs(messages) == SelectSeq(messages, LAMBDA m : m.role = S_user)

\* the "Generate title if missing" block
TitleOf(chat) ==
    IF ~Truthy(chat.title) /\ chat.messages # <<>>
    THEN IF UserMsgs(chat.messages) # <<>>
         THEN PyStr(Shorten(UserMsgs(chat.messages)[1].content))
         ELSE PyStr(S_UntitledChat)
    ELSE chat.title

\* the data dict, had it kept the filtered user messages only
DataOfUserOnly(chat, chat_id, now) ==
    [id |-> PyStr(chat_id),
     title |-> TitleOf(chat),
     model |-> PyStr(chat.model),
     timestamp |-> PyStr(IsoFormat(now)),
     messages |-> PyList([i \in 1..Len(UserMsgs(chat.messages)) |->
                              MessageDict(UserMsgs(chat.messages)[i])])]

\* the data dict
DataOf(chat, chat_id, now) ==
    [id |-> PyStr(chat_id),
     title |-> TitleOf(chat),
     model |-> PyStr(chat.model),
     timestamp |-> PyStr(IsoFormat(now)),
     messages |-> PyList([i \in 1..Len(chat.messages) |->
                              MessageDict(chat.messages[i])])]

\* the write, had it kept a file that already exists
WriteFileKeep(dir, name, text) ==
    [n \in DOMAIN dir \cup {name} |-> IF n \in DOMAIN dir THEN dir[n] ELSE text]

\* open(filepath, "w") ... json.dump(data, f): the file holds the new text only
WriteFile(dir, name, text) ==
    [n \in DOMAIN dir \cup {name} |-> IF n = name THEN text ELSE dir[n]]

Bump(n) == IF n >= 2 THEN 2 ELSE n + 1

Record(hist, chat_id, chat, ret) ==
    [i \in DOMAIN hist \cup {chat_id} |->
        IF i = chat_id
        THEN [req |-> chat, ret |-> ret,
              n |-> IF chat_id \in DOMAIN hist THEN Bump(hist[chat_id].n) ELSE 1]
        ELSE hist[i]]

SaveChat(chat) ==
    \E now \in Now :
        /\ NeedsUuid(chat) => minted < MaxUuid
        /\ LET u == Uuid(minted + 1)
               chat_id == ChatIdOf(chat, u)
               data == DataOf(chat, chat_id, now)
               ret == [id |-> chat_id, title |-> data.title]
           IN  /\ files' = WriteFile(files, FilePath(chat_id), Dump(data))
               /\ resp' = [op |-> "save", status |-> 200, body |-> ret]
               /\ lastSave' = Record(lastSave, chat_id, chat, ret)
        /\ minted' = IF NeedsUuid(chat) THEN minted + 1 ELSE minted
        /\ clock' = now
        /\ UNCHANGED <<MODELS, relay, backend, loop>>

(***************************************************************************)
(* get_chat                                                                *)
(***************************************************************************)
GetChatResult(dir, chat_id) ==
    IF FilePath(chat_id) \notin DOMAIN dir
    THEN [status |-> 404, body |-> PyNone]
    ELSE LET r == Load(dir[FilePath(chat_id)])
         IN  IF r.ok THEN [status |-> 200, body |-> r.val]
             ELSE [status |-> 500, body |-> PyNone]

GetChat(chat_id) ==
    /\ resp' = [op |-> "get", id |-> chat_id] @@ GetChatResult(files, chat_id)
    /\ UNCHANGED <<files, clock, minted, lastSave, MODELS, relay, backend, loop>>

(***************************************************************************)
(* get_chats                                                               *)
(***************************************************************************)
Summary(name, data) ==
    [id |-> Get(data, "id", PyStr(Stem(name))),
     title |-> Get(data, "title", PyStr(S_Untitled)),
     timestamp |-> Get(data, "timestamp", PyStr(<<>>)),
     model |-> Get(data, "model", PyStr(S_general))]

\* The loop over the globbed paths, in the order the directory yields them.
\* The result is the chats list, or "AttributeError" when a file holds a
\* JSON document that is not an object (data.get does not exist).
RECURSIVE Scan(_, _)
Scan(dir, order) ==
    IF order = <<>> THEN <<>>
    ELSE LET r == Load(dir[Head(order)])
             rest == Scan(dir, Tail(order))
         IN  IF ~r.ok THEN rest
             ELSE IF r.val.t # "dict" THEN "AttributeError"
             ELSE IF rest = "AttributeError" THEN rest
             ELSE <<Summary(Head(order), r.val.v)>> \o rest

\* the comparison of the sort without reverse=True
KeyLessAscending(x, y) == StrLess(y.timestamp.v, x.timestamp.v)

\* x goes before y under sort(key=timestamp, reverse=True) when key(y) < key(x)
KeyLess(x, y) == StrLess(x.timestamp.v, y.timestamp.v)

\* list.sort(reverse=True) is stable: an element is placed after every
\* element whose key is not smaller than its own.
RECURSIVE InsertDesc(_, _)
InsertDesc(sorted, x) ==
    IF sorted = <<>> THEN <<x>>
    ELSE IF KeyLess(Head(sorted), x) THEN <<x>> \o sorted
    ELSE <<Head(sorted)>> \o InsertDesc(Tail(sorted), x)

RECURSIVE SortDesc(_)
SortDesc(chats) ==
    IF chats = <<>> THEN <<>>
    ELSE InsertDesc(SortDesc(SubSeq(chats, 1, Len(chats) - 1)), chats[Len(chats)])

\* "<" between two keys raises TypeError unless both are str
Comparable(chats) ==
    Len(chats) < 2 \/ \A i \in 1..Len(chats) : chats[i].timestamp.t = "str"

GetChatsResult(dir, order) ==
    LET chats == Scan(dir, order)
    IN  IF chats = "AttributeError" THEN [status |-> 500, body |-> <<>>]
        ELSE IF ~Comparable(chats) THEN [status |-> 500, body |-> <<>>]
        ELSE [status |-> 200, body |-> SortDesc(chats)]

\* the orders in which glob may yield a set of names
Orders(names) ==
    {o \in [1..Cardinality(names) -> names] :
        \A i, j \in 1..Cardinality(names) : i # j => o[i] # o[j]}

GetChats ==
    /\ \E order \in Orders(Glob(files)) :
           resp' = [op |-> "list"] @@ GetChatsResult(files, order)
    /\ UNCHANGED <<files, clock, minted, lastSave, MODELS, relay, backend, loop>>

(***************************************************************************)
(* delete_chat                                                             *)
(***************************************************************************)
\* the unlink, had it removed nothing
UnlinkNothing(dir, name) == dir

Unlink(dir, name) == [n \in DOMAIN dir \ {name} |-> dir[n]]

Forget(hist, chat_id) == [i \in DOMAIN hist \ {chat_id} |-> hist[i]]

DeleteChat(chat_id) ==
    /\ IF FilePath(chat_id) \in DOMAIN files
       THEN /\ files' = Unlink(files, FilePath(chat_id))
            /\ resp' = [op |-> "delete", id |-> chat_id, status |-> 200,
                        body |-> [status |-> S_success]]
       ELSE /\ files' = files
            /\ resp' = [op |-> "delete", id |-> chat_id, status |-> 404,
                        body |-> PyNone]
    /\ lastSave' = Forget(lastSave, chat_id)
    /\ UNCHANGED <<clock, minted, MODELS, relay, backend, loop>>

(***************************************************************************)
(* The registry, and the idle values of the relay and the event loop.      *)
(***************************************************************************)
Registry ==
    [general |-> <<"q", "w", "e", "n", "2", ".", "5", ":", "3", "b">>,
     code |-> <<"q", "w", "e", "n", "2", ".", "5", "-", "c", "o", "d", "e", "r",
                ":", "3", "b">>]

RelayIdle == [pc |-> "idle"]
BackendIdle == [frags |-> <<>>, failed |-> FALSE]
LoopIdle == [running |-> 0, slots |-> <<>>, last |-> 0]

(***************************************************************************)
(* The record store, one handler at a time.                                *)
(***************************************************************************)
InitCommon ==
    /\ clock = 0
    /\ minted = 0
    /\ resp = [op |-> "none"]
    /\ lastSave = NoFiles
    /\ MODELS = Registry
    /\ relay = RelayIdle
    /\ backend = BackendIdle
    /\ loop = LoopIdle

Init ==
    /\ files \in StoreDirs
    /\ InitCommon

Next ==
    \/ \E chat \in SaveRequests : SaveChat(chat)
    \/ \E chat_id \in ChatIds : GetChat(chat_id)
    \/ GetChats
    \/ \E chat_id \in ChatIds : DeleteChat(chat_id)

Spec == Init /\ [][Next]_vars

(***************************************************************************)
(* The same handlers over a directory that holds files save_chat did not   *)
(* write: an empty file, a JSON array, an object whose timestamp is null,  *)
(* an object without fields, a file that is not *.json.                    *)
(***************************************************************************)
S_notes == <<"n", "o", "t", "e", "s", ".", "t", "x", "t">>

ForeignTexts ==
    { <<>>,
      ArrayText,
      ObjectText([timestamp |-> PyNone]),
      ObjectText([title |-> PyStr(S_My)]) }

DiskDirs ==
    {[name \in {FilePath(S_old), S_notes} |->
        IF name = S_notes THEN <<>> ELSE x] : x \in ForeignTexts}

InitDisk ==
    /\ files \in DiskDirs
    /\ InitCommon

SpecDisk == InitDisk /\ [][Next]_vars

(***************************************************************************)
(* get_model_name and list_models                                          *)
(***************************************************************************)
\* the lookup, had it been MODELS[key]
get_model_name_strict(key) ==
    IF key \in DOMAIN MODELS THEN MODELS[key] ELSE <<"K", "e", "y", "E", "r", "r", "o", "r">>

\* MODELS.get(key, MODELS["general"])
get_model_name(key) == Get(MODELS, key, MODELS["general"])

ListModels ==
    /\ resp' = [op |-> "models", status |-> 200,
                body |-> << [key |-> "general", name |-> MODELS["general"]],
                            [key |-> "code", name |-> MODELS["code"]] >>]
    /\ UNCHANGED <<files, clock, minted, lastSave, MODELS, relay, backend, loop>>

(***************************************************************************)
(* chat_stream and its generator                                           *)
(***************************************************************************)
ModelKeys == {"general", "code", "nonexistent-key", ""}

\* a ChatRequest message list of n messages, all different
ChatMessages(n) ==
    [i \in 1..n |-> Message(IF i % 2 = 1 THEN S_user ELSE S_assistant, Text(i))]

\* messages[-20:], had it been messages[:20]
KeepContextOldest(messages) ==
    IF Len(messages) > ContextWindow
    THEN SubSeq(messages, 1, ContextWindow)
    ELSE messages

\* if len(messages) > 20: messages = messages[-20:]
KeepContext(messages) ==
    IF Len(messages) > ContextWindow
    THEN SubSeq(messages, Len(messages) - ContextWindow + 1, Len(messages))
    ELSE messages

\* [{"role": m.role, "content": m.content} for m in request.messages]
ToDicts(messages) == [i \in 1..Len(messages) |-> MessageDict(messages[i])]

\* the handler up to "return StreamingResponse(generate())"
ChatStream(model_key, n) ==
    /\ relay.pc \in {"idle", "done"}
    /\ relay' = [pc |-> "created",
                 request |-> [model_key |-> model_key, messages |-> ChatMessages(n)],
                 model_name |-> get_model_name(model_key),
                 messages |-> KeepContext(ToDicts(ChatMessages(n))),
                 out |-> <<>>,
                 escaped |-> FALSE]
    /\ backend' = BackendIdle
    /\ UNCHANGED <<files, clock, minted, resp, lastSave, MODELS, loop>>

S_Hel == <<"H", "e", "l">>
S_lo == <<"l", "o">>
S_boom == <<"b", "o", "o", "m">>

Fragments == {S_Hel, S_lo, <<>>}
ErrorMessages == {S_boom, <<>>}

\* what the backend's stream yields
Chunks ==
    {[message |-> [role |-> PyStr(S_assistant), content |-> PyStr(f)]] : f \in Fragments}
    \cup {[message |-> [role |-> PyStr(S_assistant)]], [done |-> PyStr(<<>>)]}

\* "message" in chunk and "content" in chunk["message"]
HasContent(chunk) ==
    "message" \in DOMAIN chunk /\ "content" \in DOMAIN chunk["message"]

\* the generator, had it no try/except around the backend
OnErrorUncaught(r, msg) == [r EXCEPT !.pc = "done", !.escaped = TRUE]

\* except Exception as e: yield f"Error: {str(e)}"
OnError(r, msg) ==
    [r EXCEPT !.pc = "done", !.out = Append(@, S_ErrorPrefix \o msg)]

\* stream = ollama.chat(model=model_name, messages=messages, stream=True)
GenerateCall ==
    /\ relay.pc = "created"
    /\ \/ /\ relay' = [relay EXCEPT !.pc = "streaming"]
          /\ backend' = backend @@ [model |-> relay.model_name,
                                    messages |-> relay.messages]
       \/ \E msg \in ErrorMessages :
            /\ relay' = OnError(relay, msg)
            /\ backend' = [backend EXCEPT !.failed = TRUE] @@
                          [model |-> relay.model_name,
                           messages |-> relay.messages, msg |-> msg]
    /\ UNCHANGED <<files, clock, minted, resp, lastSave, MODELS, loop>>

\* one turn of "for chunk in stream"
GenerateChunk(chunk) ==
    /\ relay.pc = "streaming"
    /\ Len(backend.frags) < MaxFrags
    /\ IF HasContent(chunk)
       THEN /\ relay' = [relay EXCEPT !.out = Append(@, chunk["message"]["content"].v)]
            /\ backend' = [backend EXCEPT
                              !.frags = Append(@, chunk["message"]["content"].v)]
       ELSE UNCHANGED <<relay, backend>>
    /\ UNCHANGED <<files, clock, minted, resp, lastSave, MODELS, loop>>

\* the stream raises while it is iterated
GenerateRaise(msg) ==
    /\ relay.pc = "streaming"
    /\ relay' = OnError(relay, msg)
    /\ backend' = [backend EXCEPT !.failed = TRUE] @@ [msg |-> msg]
    /\ UNCHANGED <<files, clock, minted, resp, lastSave, MODELS, loop>>

\* the stream is exhausted
GenerateEnd ==
    /\ relay.pc = "streaming"
    /\ relay' = [relay EXCEPT !.pc = "done"]
    /\ UNCHANGED <<files, clock, minted, resp, lastSave, MODELS, backend, loop>>

InitRelay ==
    /\ files = NoFiles
    /\ InitCommon

NextRelay ==
    \/ \E k \in ModelKeys, n \in 0..(ContextWindow + MaxExtra) : ChatStream(k, n)
    \/ GenerateCall
    \/ \E chunk \in Chunks : GenerateChunk(chunk)
    \/ \E msg \in ErrorMessages : GenerateRaise(msg)
    \/ GenerateEnd
    \/ ListModels

SpecRelay == InitRelay /\ [][NextRelay]_vars

(***************************************************************************)
(* save_chat step by step, as a coroutine on the event loop.  The handler  *)
(* is "async def" and awaits nothing, so once the loop has started it no   *)
(* other handler runs until it returns.                                    *)
(***************************************************************************)
ConcurrentRequests ==
    {chat \in SaveRequests : chat.id = PyStr(S_a) /\ chat.title # PyStr(<<>>)
                             /\ Len(chat.messages) # 1}

\* a handler on a thread of its own would run whenever it is scheduled
RunnableOnThread(k) == TRUE

\* the loop runs coroutine k: nothing else is in the middle of its run
Runnable(k) == loop.running \in {0, k}

\* a save request is accepted and its coroutine is scheduled
Accept(chat) ==
    /\ Len(loop.slots) < MaxSlots
    /\ loop' = [loop EXCEPT !.slots = Append(@, [pc |-> "start", chat |-> chat])]
    /\ UNCHANGED <<files, clock, minted, resp, lastSave, MODELS, relay, backend>>

\* f.write at the file object's own offset; a gap reads as zero bytes
WriteAt(text, p, piece) ==
    [i \in 1..(IF Len(text) > p THEN Len(text) ELSE p) |->
        IF i = p THEN piece
        ELSE IF i <= Len(text) THEN text[i]
        ELSE [part |-> "hole"]]

\* from the first line of the handler to open(filepath, "w"), which truncates
SaveBegin(k) ==
    /\ k \in 1..Len(loop.slots)
    /\ Runnable(k)
    /\ loop.slots[k].pc = "start"
    /\ \E now \in Now :
        LET chat == loop.slots[k].chat
            chat_id == ChatIdOf(chat, Uuid(minted + 1))
        IN  /\ NeedsUuid(chat) => minted < MaxUuid
            /\ minted' = IF NeedsUuid(chat) THEN minted + 1 ELSE minted
            /\ clock' = now
            /\ files' = WriteFile(files, FilePath(chat_id), <<>>)
            /\ loop' = [loop EXCEPT
                   !.running = k,
                   !.slots[k] = [pc |-> "writing", chat |-> chat, chat_id |-> chat_id,
                                 data |-> DataOf(chat, chat_id, now), written |-> 0]]
    /\ UNCHANGED <<resp, lastSave, MODELS, relay, backend>>

\* the buffered text reaches the file, one piece at a time; loop.last names
\* the coroutine whose write was completed most recently
SaveFlush(k) ==
    /\ k \in 1..Len(loop.slots)
    /\ Runnable(k)
    /\ loop.slots[k].pc = "writing"
    /\ loop.slots[k].written < Len(Dump(loop.slots[k].data))
    /\ LET c == loop.slots[k]
           name == FilePath(c.chat_id)
           p == c.written + 1
       IN  /\ files' = [files EXCEPT ![name] = WriteAt(@, p, Dump(c.data)[p])]
           /\ loop' = [loop EXCEPT
                  !.running = k,
                  !.slots[k].written = p,
                  !.last = IF p = Len(Dump(c.data)) THEN k ELSE @]
    /\ UNCHANGED <<clock, minted, resp, lastSave, MODELS, relay, backend>>

\* the file is closed and the handler returns {"id", "title"}
SaveReturn(k) ==
    /\ k \in 1..Len(loop.slots)
    /\ Runnable(k)
    /\ loop.slots[k].pc = "writing"
    /\ loop.slots[k].written = Len(Dump(loop.slots[k].data))
    /\ LET c == loop.slots[k]
           ret == [id |-> c.chat_id, title |-> c.data.title]
       IN  /\ resp' = [op |-> "save", status |-> 200, body |-> ret]
           /\ lastSave' = Record(lastSave, c.chat_id, c.chat, ret)
           /\ loop' = [loop EXCEPT !.running = 0, !.slots[k].pc = "done"]
    /\ UNCHANGED <<files, clock, minted, MODELS, relay, backend>>

\* a get handler, dispatched when the loop is free
GetWhenIdle(chat_id) ==
    /\ loop.running = 0
    /\ GetChat(chat_id)

InitConcurrent ==
    /\ files \in StoreDirs
    /\ InitCommon

NextConcurrent ==
    \/ \E chat \in ConcurrentRequests : Accept(chat)
    \/ \E k \in 1..MaxSlots : SaveBegin(k)
    \/ \E k \in 1..MaxSlots : SaveFlush(k)
    \/ \E k \in 1..MaxSlots : SaveReturn(k)
    \/ GetWhenIdle(S_a)

SpecConcurrent == InitConcurrent /\ [][NextConcurrent]_vars

(***************************************************************************)
(* Vocabulary of the properties.                                           *)
(***************************************************************************)
\* a is before b in the lexicographic order of strings, stated position by
\* position
LexBefore(a, b) ==
    \E k \in 1..Len(b) :
        /\ k - 1 <= Len(a)
        /\ \A i \in 1..(k - 1) : a[i] = b[i]
        /\ (k > Len(a) \/ Ord(a[k]) < Ord(b[k]))

RecordKeys == {"id", "title", "model", "timestamp", "messages"}

\* the stored messages are the caller's, one for one and in order
SameMessages(stored, sent) ==
    /\ stored.t = "list"
    /\ Len(stored.v) = Len(sent)
    /\ \A i \in 1..Len(sent) :
        /\ DOMAIN stored.v[i] = {"role", "content"}
        /\ stored.v[i].role = PyStr(sent[i].role)
        /\ stored.v[i].content = PyStr(sent[i].content)

\* the entries a listing of the directory shows for chat id
EntriesFor(dir, chat_id) ==
    {name \in Glob(dir) :
        /\ Load(dir[name]).ok
        /\ Load(dir[name]).val.t = "dict"
        /\ Summary(name, Load(dir[name]).val.v).id = PyStr(chat_id)}

(***************************************************************************)
(* C1.  Round trip: a get of the id a save returned, before any other save *)
(* or delete of that id, succeeds with a record of exactly the five fields *)
(* whose model is the saved model and whose messages are the saved         *)
(* messages in the same order with the same role and content; the id is    *)
(* the returned one and equals the caller's when the caller gave one, and  *)
(* the title equals the caller's when the caller gave one.                 *)
(***************************************************************************)
C1_RoundTrip ==
    (resp.op = "get" /\ resp.id \in DOMAIN lastSave) =>
        LET s == lastSave[resp.id]
        IN  /\ resp.status = 200
            /\ resp.body.t = "dict"
            /\ DOMAIN resp.body.v = RecordKeys
            /\ resp.body.v.model = PyStr(s.req.model)
            /\ SameMessages(resp.body.v.messages, s.req.messages)
            /\ resp.body.v.id = PyStr(s.ret.id)
            /\ Truthy(s.req.id) => resp.body.v.id = s.req.id
            /\ Truthy(s.req.title) => resp.body.v.title = s.req.title
            /\ resp.body.v.timestamp.t = "str"

\* a get of a record saved without an id, holding several messages
C1_Witness ==
    /\ resp.op = "get"
    /\ resp.id \in DOMAIN lastSave
    /\ lastSave[resp.id].req.id = PyNone
    /\ Len(lastSave[resp.id].req.messages) >= 3
    /\ resp.status = 200

(***************************************************************************)
(* C2.  Overwrite: whatever saves and deletes have run, a get of an id     *)
(* saved since its last delete returns the title, model and messages of    *)
(* the most recent of those saves, and the directory lists exactly one     *)
(* record for that id.                                                     *)
(***************************************************************************)
C2_Overwrite ==
    \A chat_id \in DOMAIN lastSave :
        LET s == lastSave[chat_id]
            got == GetChatResult(files, chat_id)
        IN  /\ got.status = 200
            /\ got.body.t = "dict"
            /\ got.body.v.title = s.ret.title
            /\ got.body.v.model = PyStr(s.req.model)
            /\ SameMessages(got.body.v.messages, s.req.messages)
            /\ Cardinality(EntriesFor(files, chat_id)) = 1

\* an id saved at least twice, the second save just completed
C2_Witness ==
    /\ resp.op = "save"
    /\ resp.body.id \in DOMAIN lastSave
    /\ lastSave[resp.body.id].n >= 2
    /\ Cardinality(DOMAIN files) >= 2

(***************************************************************************)
(* C3.  Delete: a delete of an id with no file answers 404 and leaves the  *)
(* directory as it was; a delete of an id with a file answers success and  *)
(* removes that file and no other, after which a get of the id answers 404 *)
(* and no listed entry carries the id; and a file for an absent id appears *)
(* only by a save of that id.                                              *)
(***************************************************************************)
C3_Delete ==
    [][ /\ \A chat_id \in ChatIds :
            DeleteChat(chat_id) =>
                IF FilePath(chat_id) \in DOMAIN files
                THEN /\ resp'.status = 200
                     /\ resp'.body = [status |-> S_success]
                     /\ DOMAIN files' = DOMAIN files \ {FilePath(chat_id)}
                     /\ \A n \in DOMAIN files' : files'[n] = files[n]
                     /\ GetChatResult(files', chat_id).status = 404
                     /\ EntriesFor(files', chat_id) = {}
                ELSE /\ resp'.status = 404
                     /\ files' = files
        /\ \A chat_id \in ChatIds :
            (FilePath(chat_id) \notin DOMAIN files
                /\ FilePath(chat_id) \in DOMAIN files') =>
                    (resp'.op = "save" /\ resp'.body.id = chat_id)
      ]_vars

\* a delete that removed a record written by save, others remaining
C3_Witness ==
    /\ resp.op = "delete"
    /\ resp.status = 200
    /\ resp.id = S_a
    /\ DOMAIN files # {}

(***************************************************************************)
(* C4.  List ordering: a listing succeeds and shows one summary {id,       *)
(* title, timestamp, model} per record file, each entry's timestamp not    *)
(* before the next entry's in string order, and entries with an empty      *)
(* timestamp after every entry with a non-empty one.                       *)
(***************************************************************************)
C4_ListOrdering ==
    resp.op = "list" =>
        /\ resp.status = 200
        /\ Len(resp.body) = Cardinality(Glob(files))
        /\ \A name \in Glob(files) :
            \E i \in 1..Len(resp.body) :
                resp.body[i] = Summary(name, Load(files[name]).val.v)
        /\ \A i \in 1..Len(resp.body) :
            DOMAIN resp.body[i] = {"id", "title", "timestamp", "model"}
        /\ \A i \in 1..(Len(resp.body) - 1) :
            ~LexBefore(resp.body[i].timestamp.v, resp.body[i + 1].timestamp.v)
        /\ \A i, j \in 1..Len(resp.body) :
            (i < j /\ resp.body[i].timestamp.v = <<>>) =>
                resp.body[j].timestamp.v = <<>>

\* a listing of three records: two with different timestamps, one with none
C4_Witness ==
    /\ resp.op = "list"
    /\ resp.status = 200
    /\ Len(resp.body) = 3
    /\ resp.body[1].timestamp.v # resp.body[2].timestamp.v
    /\ resp.body[2].timestamp.v # <<>>
    /\ resp.body[3].timestamp.v = <<>>

(***************************************************************************)
(* C7.  Title derivation: the title a save stores and returns is the       *)
(* client's title when one is supplied; otherwise the content of the first *)
(* message with role "user", whole when at most 50 characters and its      *)
(* first 50 characters followed by "..." when longer; otherwise, with no   *)
(* user message (an empty message list included), "Untitled Chat".  The    *)
(* stored title is never null.                                             *)
(***************************************************************************)
FirstUser(messages) ==
    CHOOSE i \in 1..Len(messages) :
        /\ messages[i].role = S_user
        /\ \A j \in 1..(i - 1) : messages[j].role # S_user

ClaimedTitle(chat) ==
    IF Truthy(chat.title) THEN chat.title
    ELSE IF \E i \in 1..Len(chat.messages) : chat.messages[i].role = S_user
    THEN LET c == chat.messages[FirstUser(chat.messages)].content
         IN  IF Len(c) <= 50 THEN PyStr(c)
             ELSE PyStr([i \in 1..53 |-> IF i <= 50 THEN c[i] ELSE "."])
    ELSE PyStr(S_UntitledChat)

C7_TitleDerivation ==
    resp.op = "save" =>
        LET chat == lastSave[resp.body.id].req
            stored == GetChatResult(files, resp.body.id).body.v.title
        IN  /\ resp.body.title = ClaimedTitle(chat)
            /\ stored = ClaimedTitle(chat)
            /\ stored # PyNone

\* the same rule for the saves whose message list is not empty
C7_NonEmptyOnly ==
    (resp.op = "save" /\ lastSave[resp.body.id].req.messages # <<>>) =>
        C7_TitleDerivation

(***************************************************************************)
(* C8.  Lenient listing: on every directory state a listing succeeds; a    *)
(* record file that fails to parse or lacks an expected field is left out  *)
(* of it, and every other record file appears in it exactly once.          *)
(***************************************************************************)
SummaryKeys == {"id", "title", "timestamp", "model"}

\* the file parses to an object that has every field a summary reads
WellFormed(text) ==
    /\ Load(text).ok
    /\ Load(text).val.t = "dict"
    /\ SummaryKeys \subseteq DOMAIN Load(text).val.v

Shown(body, name) == {i \in 1..Len(body) : body[i].id = PyStr(Stem(name))}

C8_LenientListing ==
    resp.op = "list" =>
        /\ resp.status = 200
        /\ \A name \in Glob(files) :
            IF WellFormed(files[name])
            THEN Cardinality(Shown(resp.body, name)) = 1
            ELSE Shown(resp.body, name) = {}

\* the part of it about failure alone
C8_NeverFails == resp.op = "list" => resp.status = 200

\* the part of it about files that do not parse
C8_UnparsedOmitted ==
    (resp.op = "list" /\ resp.status = 200) =>
        \A name \in Glob(files) :
            ~Load(files[name]).ok => Shown(resp.body, name) = {}

(***************************************************************************)
(* C5.  In-band backend failure: when the backend has produced fragments   *)
(* f1..fn (n >= 0) and then failed, at the call or while streaming, the    *)
(* relay's output is f1..fn in that order followed by the one fragment     *)
(* "Error: <message>", and the sequence has ended; no exception leaves the *)
(* generator, and before any failure the output is the backend's           *)
(* fragments so far.                                                       *)
(***************************************************************************)
C5_InBandFailure ==
    relay.pc # "idle" =>
        /\ ~relay.escaped
        /\ backend.failed =>
            /\ relay.pc = "done"
            /\ Len(relay.out) = Len(backend.frags) + 1
            /\ \A i \in 1..Len(backend.frags) : relay.out[i] = backend.frags[i]
            /\ relay.out[Len(relay.out)] =
                   <<"E", "r", "r", "o", "r", ":", " ">> \o backend.msg
        /\ ~backend.failed => relay.out = backend.frags

\* the backend failed in mid-stream after "Hel", "lo"
C5_Witness ==
    /\ relay.pc = "done"
    /\ backend.failed
    /\ backend.frags = <<S_Hel, S_lo>>
    /\ backend.msg = S_boom
    /\ Len(relay.out) = 3

(***************************************************************************)
(* C6.  Context truncation: the list handed to the backend is the whole    *)
(* request list in order when it has at most 20 messages, and exactly its  *)
(* last 20 messages in order when it has more.                             *)
(***************************************************************************)
C6_ContextTruncation ==
    "messages" \in DOMAIN backend =>
        LET sent == relay.request.messages
            n == Len(sent)
            forwarded == backend.messages
            m == Len(forwarded)
        IN  /\ m = (IF n <= 20 THEN n ELSE 20)
            /\ \A i \in 1..m :
                /\ forwarded[i].role = PyStr(sent[n - m + i].role)
                /\ forwarded[i].content = PyStr(sent[n - m + i].content)

\* a request of more than 20 messages reached the backend
C6_Witness ==
    /\ "messages" \in DOMAIN backend
    /\ Len(relay.request.messages) > 20
    /\ Len(backend.messages) = 20
    /\ relay.pc = "streaming"

(***************************************************************************)
(* C9.  Model resolution: the name resolved for a request is the           *)
(* registered identifier for "general" and for "code", and for every other *)
(* key the identifier resolved for "general"; the registry holds at every  *)
(* point the two entries it was built with.                                *)
(***************************************************************************)
C9_ModelResolution ==
    /\ MODELS = [general |-> <<"q", "w", "e", "n", "2", ".", "5", ":", "3", "b">>,
                 code |-> <<"q", "w", "e", "n", "2", ".", "5", "-", "c", "o", "d",
                            "e", "r", ":", "3", "b">>]
    /\ relay.pc # "idle" =>
        LET key == relay.request.model_key
        IN  /\ key = "general" => relay.model_name = MODELS["general"]
            /\ key = "code" => relay.model_name = MODELS["code"]
            /\ key \notin {"general", "code"} =>
                   relay.model_name = <<"q", "w", "e", "n", "2", ".", "5", ":", "3", "b">>
    /\ "model" \in DOMAIN backend => backend.model = relay.model_name

\* an unregistered key was resolved and used for a backend call
C9_Witness ==
    /\ relay.pc = "streaming"
    /\ relay.request.model_key = "nonexistent-key"
    /\ "model" \in DOMAIN backend

(***************************************************************************)
(* C10.  Last writer wins: once every accepted save of an id has returned, *)
(* the file of that id parses and holds the complete record (id, title,    *)
(* model, timestamp, messages) built by the save whose write finished      *)
(* last, and a get of the id returns that record.                          *)
(***************************************************************************)
AllReturned ==
    /\ Len(loop.slots) >= 1
    /\ \A k \in 1..Len(loop.slots) : loop.slots[k].pc = "done"

C10_LastWriterWins ==
    AllReturned =>
        LET winner == loop.slots[loop.last]
            text == files[FilePath(winner.chat_id)]
        IN  /\ Load(text).ok
            /\ Load(text).val.t = "dict"
            /\ Load(text).val.v = winner.data
            /\ GetChatResult(files, winner.chat_id) =
                   [status |-> 200, body |-> [t |-> "dict", v |-> winner.data]]
            /\ (resp.op = "get" /\ resp.id = winner.chat_id) =>
                   (resp.status = 200 /\ resp.body.v = winner.data)

\* two saves of one id with different content have both returned, and a get
\* has been answered since
C10_Witness ==
    /\ AllReturned
    /\ Len(loop.slots) >= 2
    /\ loop.slots[1].chat # loop.slots[2].chat
    /\ loop.slots[1].chat_id = loop.slots[2].chat_id
    /\ resp.op = "get"

=============================================================================
